---- MODULE Spec2Model ----
(***************************************************************************)
(* A model of the DTO generator of nest-typeorm-dto.                       *)
(*                                                                         *)
(* Two scripts share the line-oriented extraction heuristic:               *)
(*   - src/unnamed/part_000     the generator with validation rules        *)
(*   - src/bin/generate-dto.js  the generator with all-optional fields     *)
(* One behaviour of the model is one run of the entityFiles.forEach        *)
(* callback of one of the scripts on one entity file.  Texts are TLA+      *)
(* strings, and the regular expressions of the source are translated into  *)
(* scanners over character positions (1-based).                            *)
(***************************************************************************)
EXTENDS Integers, Sequences, FiniteSets, TLC

VARIABLES script, entityContent, lines, i, props, dtoContent, j, pc

vars == <<script, entityContent, lines, i, props, dtoContent, j, pc>>

(***************************************************************************)
(* Characters and strings                                                  *)
(***************************************************************************)

UpperLetters == "ABCDEFGHIJKLMNOPQRSTUVWXYZ"

LowerLetters == "abcdefghijklmnopqrstuvwxyz"

Digits == "0123456789"

Chars(s) == { SubSeq(s, p, p) : p \in 1..Len(s) }

\* [A-Za-z0-9_]
IdentChars == Chars(UpperLetters) \cup Chars(LowerLetters) \cup Chars(Digits) \cup {"_"}

\* \s, restricted to the white space the modelled texts use
WhiteSpace == {" ", "\t"}

\* s.charAt(p - 1): the empty string outside the string
CharAt(s, p) == IF p >= 1 /\ p <= Len(s) THEN SubSeq(s, p, p) ELSE ""

\* the literal w stands in s at position p
StartsWithAt(s, p, w) ==
    /\ p >= 1
    /\ p + Len(w) - 1 <= Len(s)
    /\ SubSeq(s, p, p + Len(w) - 1) = w

\* String.prototype.includes, and an unanchored literal regex test
includes(s, w) == \E p \in 1..(Len(s) - Len(w) + 1) : StartsWithAt(s, p, w)

\* /w$/ for a literal w
EndsWith(s, w) == Len(s) >= Len(w) /\ StartsWithAt(s, Len(s) - Len(w) + 1, w)

\* \s* from p, greedy: the position after the run of white space
RECURSIVE SkipWs(_, _)
SkipWs(s, p) == IF CharAt(s, p) \in WhiteSpace THEN SkipWs(s, p + 1) ELSE p

\* [A-Za-z0-9_]* from p, greedy: the position after the run
RECURSIVE IdentEnd(_, _)
IdentEnd(s, p) == IF CharAt(s, p) \in IdentChars THEN IdentEnd(s, p + 1) ELSE p

\* the first position >= p holding a character of cs, Len(s) + 1 when none
RECURSIVE FirstOf(_, _, _)
FirstOf(s, p, cs) ==
    IF p > Len(s) \/ CharAt(s, p) \in cs THEN p ELSE FirstOf(s, p + 1, cs)

UpperChars == Chars(UpperLetters)

\* String.prototype.toLowerCase on one character
LowerChar(c) ==
    IF c \in UpperChars
    THEN LET p == FirstOf(UpperLetters, 1, {c}) IN SubSeq(LowerLetters, p, p)
    ELSE c

RECURSIVE toLowerCase(_)
toLowerCase(s) ==
    IF s = "" THEN "" ELSE LowerChar(SubSeq(s, 1, 1)) \o toLowerCase(SubSeq(s, 2, Len(s)))

\* the last position <= p holding a character of cs, 0 when none
RECURSIVE LastOf(_, _, _)
LastOf(s, p, cs) ==
    IF p < 1 \/ CharAt(s, p) \in cs THEN p ELSE LastOf(s, p - 1, cs)

\* the position before the trailing run of white space
RECURSIVE TrimEnd(_, _)
TrimEnd(s, p) == IF CharAt(s, p) \in WhiteSpace THEN TrimEnd(s, p - 1) ELSE p

\* String.prototype.trim
trim(s) == SubSeq(s, SkipWs(s, 1), TrimEnd(s, Len(s)))

\* String.prototype.split('\n'): always at least one piece
RECURSIVE split(_)
split(s) ==
    LET nl == FirstOf(s, 1, {"\n"})
    IN  IF nl > Len(s) THEN <<s>>
        ELSE <<SubSeq(s, 1, nl - 1)>> \o split(SubSeq(s, nl + 1, Len(s)))

\* target.charAt(0).toLowerCase() + target.slice(1)
lowerFirst(s) == LowerChar(CharAt(s, 1)) \o SubSeq(s, 2, Len(s))

(***************************************************************************)
(* relationField: the relation annotation                                  *)
(*   /@(ManyToOne|OneToMany|ManyToMany|OneToOne)\s*\(\s*\(\)\s*=>\s*       *)
(*     ([A-Za-z0-9_]+)\s*[,)]/                                             *)
(***************************************************************************)

\* the alternatives of group 1, in the order the regex tries them
RelationKinds == <<"ManyToOne", "OneToMany", "ManyToMany", "OneToOne">>

\* the rest of the regex after group 1, from position p: <<target>> or <<>>
RelTail(s, p) ==
    LET a == SkipWs(s, p)
        b == SkipWs(s, a + 1)
        c == SkipWs(s, b + 2)
        d == SkipWs(s, c + 2)
        e == IdentEnd(s, d)
        f == SkipWs(s, e)
    IN  IF /\ CharAt(s, a) = "("
           /\ StartsWithAt(s, b, "()")
           /\ StartsWithAt(s, c, "=>")
           /\ e > d
           /\ CharAt(s, f) \in {",", ")"}
        THEN <<SubSeq(s, d, e - 1)>>
        ELSE <<>>

\* a match that starts at position p, trying alternative n of group 1 first
RECURSIVE RelMatchAt(_, _, _)
RelMatchAt(s, p, n) ==
    IF n > Len(RelationKinds) THEN <<>>
    ELSE LET kind == RelationKinds[n]
             tail == IF StartsWithAt(s, p, "@" \o kind)
                     THEN RelTail(s, p + 1 + Len(kind)) ELSE <<>>
         IN  IF tail # <<>> THEN <<kind, tail[1]>> ELSE RelMatchAt(s, p, n + 1)

\* line.match(...): the leftmost match from p on, <<group 1, group 2>> or <<>>
RECURSIVE RelMatch(_, _)
RelMatch(s, p) ==
    IF p > Len(s) THEN <<>>
    ELSE LET m == RelMatchAt(s, p, 1)
         IN  IF m # <<>> THEN m ELSE RelMatch(s, p + 1)

\* relationField with the suffix "Id" for every kind
relationField_SameSuffix(line) ==
    LET relMatch == RelMatch(line, 1)
    IN  IF relMatch = <<>> THEN <<>>
        ELSE <<[name |-> lowerFirst(relMatch[2]) \o "Id", type |-> "number",
                isArray |-> relMatch[1] \in {"OneToMany", "ManyToMany"},
                isOptional |-> FALSE, isRelation |-> TRUE]>>

\* relationField without the lower-casing of the target's first character
relationField_NoLower(line) ==
    LET relMatch == RelMatch(line, 1)
    IN  IF relMatch = <<>> THEN <<>>
        ELSE IF relMatch[1] \in {"ManyToOne", "OneToOne"}
        THEN <<[name |-> relMatch[2] \o "Id", type |-> "number",
                isArray |-> FALSE, isOptional |-> FALSE, isRelation |-> TRUE]>>
        ELSE <<[name |-> relMatch[2] \o "Ids", type |-> "number",
                isArray |-> TRUE, isOptional |-> FALSE, isRelation |-> TRUE]>>

\* relationField of part_000: <<field>>, or <<>> for null
relationField(line) ==
    LET relMatch == RelMatch(line, 1)
    IN  IF relMatch = <<>> THEN <<>>
        ELSE LET type == relMatch[1]
                 target == relMatch[2]
             IN  IF type \in {"ManyToOne", "OneToOne"}
                 THEN <<[name |-> lowerFirst(target) \o "Id", type |-> "number",
                         isArray |-> FALSE, isOptional |-> FALSE, isRelation |-> TRUE]>>
                 ELSE IF type \in {"OneToMany", "ManyToMany"}
                 THEN <<[name |-> lowerFirst(target) \o "Ids", type |-> "number",
                         isArray |-> TRUE, isOptional |-> FALSE, isRelation |-> TRUE]>>
                 ELSE <<>>

(***************************************************************************)
(* The plain property declaration                                          *)
(*   /(?:public\s+|protected\s+|private\s+)?([a-zA-Z0-9_]+)\??:\s*         *)
(*     ([^;\n]+);/                                                         *)
(***************************************************************************)

\* the alternatives of the access modifier group, in order
Modifiers == <<"public", "protected", "private">>

\* the modifier group at p, alternative n first: the position after its \s+, 0 when none
RECURSIVE ModifierEnd(_, _, _)
ModifierEnd(s, p, n) ==
    IF n > Len(Modifiers) THEN 0
    ELSE LET q == p + Len(Modifiers[n])
         IN  IF StartsWithAt(s, p, Modifiers[n]) /\ CharAt(s, q) \in WhiteSpace
             THEN SkipWs(s, q)
             ELSE ModifierEnd(s, p, n + 1)

\* ([a-zA-Z0-9_]+)\??:\s*([^;\n]+); from q: <<name, text of group 2 after trim()>>
\* or <<>>.  The greedy identifier admits no shorter match (the character after
\* a shorter one is an identifier character), and whatever \s* gives back to
\* group 2 is white space that trim() removes.
PropTail(s, q) ==
    LET e == IdentEnd(s, q)
        r == IF CharAt(s, e) = "?" THEN e + 1 ELSE e
        stop == FirstOf(s, r + 1, {";", "\n"})
    IN  IF /\ e > q
           /\ CharAt(s, r) = ":"
           /\ stop > r + 1
           /\ CharAt(s, stop) = ";"
        THEN <<SubSeq(s, q, e - 1), trim(SubSeq(s, r + 1, stop - 1))>>
        ELSE <<>>

\* a match that starts at position p: with the modifier group, then without
PropMatchAt(s, p) ==
    LET q == ModifierEnd(s, p, 1)
        withMod == IF q > 0 THEN PropTail(s, q) ELSE <<>>
    IN  IF withMod # <<>> THEN withMod ELSE PropTail(s, p)

\* line.match(...): the leftmost match from p on
RECURSIVE PropMatch(_, _)
PropMatch(s, p) ==
    IF p > Len(s) THEN <<>>
    ELSE LET m == PropMatchAt(s, p)
         IN  IF m # <<>> THEN m ELSE PropMatch(s, p + 1)

\* /a|b|c/i.test(type) for literal lower-case alternatives
TestAnyCI(type, words) ==
    LET lower == toLowerCase(type) IN \E w \in words : includes(lower, w)

StringWords == {"string", "varchar", "text"}

NumberWords == {"number", "int", "decimal", "float", "double", "numeric", "smallint", "bigint"}

BooleanWords == {"boolean", "true", "false"}

DateWords == {"date", "datetime", "timestamp"}

\* the chain with the array test moved to the front
canonicalize_ArrayFirst(type) ==
    IF EndsWith(type, "[]") \/ includes(type, "Array<") THEN "array"
    ELSE IF TestAnyCI(type, StringWords) THEN "string"
    ELSE IF TestAnyCI(type, NumberWords) THEN "number"
    ELSE IF TestAnyCI(type, BooleanWords) THEN "boolean"
    ELSE IF TestAnyCI(type, DateWords) THEN "Date"
    ELSE "any"

\* the if/else chain of parseProps over the declared type
canonicalize(type) ==
    IF TestAnyCI(type, StringWords) THEN "string"
    ELSE IF TestAnyCI(type, NumberWords) THEN "number"
    ELSE IF TestAnyCI(type, BooleanWords) THEN "boolean"
    ELSE IF TestAnyCI(type, DateWords) THEN "Date"
    ELSE IF EndsWith(type, "[]") \/ includes(type, "Array<") THEN "array"
    ELSE "any"

\* the field parseProps pushes for a line whose propMatch is m
plainField(line, m) ==
    LET type == canonicalize(m[2])
    IN  [name |-> m[1], type |-> type, isOptional |-> includes(line, "?"),
         isArray |-> (type = "array"), isRelation |-> FALSE]

(***************************************************************************)
(* generate-dto.js: the older script maps the raw type while rendering     *)
(***************************************************************************)

\* typeRaw.replace(/<.*>/, ''): the span from the first "<" to the last ">"
stripGeneric(typeRaw) ==
    LET lt == FirstOf(typeRaw, 1, {"<"})
        gt == LastOf(typeRaw, Len(typeRaw), {">"})
    IN  IF lt <= Len(typeRaw) /\ gt > lt
        THEN SubSeq(typeRaw, 1, lt - 1) \o SubSeq(typeRaw, gt + 1, Len(typeRaw))
        ELSE typeRaw

\* the type mapType writes after "name: "
mapTypeName(typeRaw, isRelation, isArray) ==
    LET t == trim(stripGeneric(typeRaw))
    IN  IF isRelation THEN (IF isArray THEN "number[]" ELSE "number")
        ELSE IF TestAnyCI(t, StringWords) THEN "string"
        ELSE IF TestAnyCI(t, NumberWords) THEN "number"
        ELSE IF TestAnyCI(t, BooleanWords) THEN "boolean"
        ELSE IF TestAnyCI(t, DateWords) THEN "string"
        ELSE IF EndsWith(t, "[]") \/ includes(typeRaw, "Array<") THEN "any[]"
        ELSE "any"

mapType(typeRaw, propName, isRelation, isArray) ==
    propName \o ": " \o mapTypeName(typeRaw, isRelation, isArray) \o ";"

\* the record the older script pushes for a relation line
basicRelation(rel) ==
    [name |-> rel.name, typeRaw |-> "", isRelation |-> TRUE, isArray |-> rel.isArray]

\* the record the older script pushes for a line whose propMatch is m
basicField(m) ==
    [name |-> m[1], typeRaw |-> m[2], isRelation |-> FALSE, isArray |-> FALSE]

(***************************************************************************)
(* Rendering one field of the create DTO                                   *)
(***************************************************************************)

\* the decorators array of part_000
apiDecorators(prop) ==
    IF prop.isOptional THEN <<"ApiPropertyOptional">> ELSE <<"ApiProperty">>

\* the presence validator without the required branch
presenceValidators_AlwaysOptional(prop) == <<"IsOptional">>

\* the first entry of the validators array of part_000
presenceValidators(prop) ==
    IF prop.isOptional THEN <<"IsOptional">> ELSE <<"IsNotEmpty">>

\* the switch with IsPositive for every required number, arrays included
typeValidators_NoArrayCheck(prop) ==
    CASE prop.type = "string" -> <<"IsString">>
      [] prop.type = "number" ->
            <<"IsNumber">> \o (IF ~prop.isOptional THEN <<"IsPositive">> ELSE <<>>)
      [] prop.type = "boolean" -> <<"IsBoolean">>
      [] prop.type = "Date" -> <<"IsDate">>
      [] prop.type = "array" -> <<"IsArray">>
      [] OTHER -> <<>>

\* the switch over prop.type of part_000
typeValidators(prop) ==
    CASE prop.type = "string" -> <<"IsString">>
      [] prop.type = "number" ->
            <<"IsNumber">> \o
            (IF ~prop.isOptional /\ ~prop.isArray THEN <<"IsPositive">> ELSE <<>>)
      [] prop.type = "boolean" -> <<"IsBoolean">>
      [] prop.type = "Date" -> <<"IsDate">>
      [] prop.type = "array" -> <<"IsArray">>
      [] OTHER -> <<>>

\* @Type(() => Number), pushed for relation fields
relationValidators(prop) == IF prop.isRelation THEN <<"Type">> ELSE <<>>

\* what props.forEach of part_000 appends to dtoContent for one field
renderValidated(prop) ==
    [decorators |-> apiDecorators(prop),
     validators |-> presenceValidators(prop) \o typeValidators(prop) \o relationValidators(prop),
     decl |-> prop.name \o ": " \o prop.type \o (IF prop.isArray THEN "[]" ELSE "") \o ";"]

\* one element of dtoLines of generate-dto.js
renderBasic(p) ==
    [decorators |-> <<"ApiPropertyOptional">>,
     validators |-> <<"IsOptional">>,
     decl |-> mapType(p.typeRaw, p.name, p.isRelation, p.isArray)]

(***************************************************************************)
(* Entity texts                                                            *)
(***************************************************************************)

\* the most lines of a text assembled from SmallLines
MaxLines == 3

Scripts == {"part_000", "generate-dto"}

Indents == {"", "  "}

Kinds == { RelationKinds[n] : n \in 1..Len(RelationKinds) }

Targets == {"Client", "orderItem", "_Tag9"}

Layouts == {"tight", "usual", "loose"}

RelTails == {")", ", (c) => c.orders)", ", { nullable: true })"}

\* the annotation @K(() => X up to and excluding what follows the target
RelHead(K, X, layout) ==
    CASE layout = "tight" -> "@" \o K \o "(()=>" \o X
      [] layout = "usual" -> "@" \o K \o "(() => " \o X
      [] layout = "loose" -> "@" \o K \o " ( () =>  " \o X \o " "

RelLine(ind, K, X, layout, tl) == ind \o RelHead(K, X, layout) \o tl

RelLines ==
    { RelLine(ind, K, X, layout, tl) :
        ind \in Indents, K \in Kinds, X \in Targets, layout \in Layouts, tl \in RelTails }

PropModifiers == {"", "public ", "private readonly "}

PropNames == {"id", "created_at"}

\* what stands between the property name and the colon
Markers == {"", "?", "!"}

DeclaredTypes ==
    {"string", "number", "boolean", "Date", "any", "Client", "Tag[]", "Array<Tag>",
     "array<Tag>", "string[]", "number[]", "Array<string>", "Date[]", "boolean[]",
     "Map<string, Tag>", "Point", "Context", "Update", "VARCHAR", "BigInt", "true",
     "Timestamp", "Date | string", "boolean | number", "Status | null"}

\* what follows the terminating semicolon
Trailers == {"", " // nullable?"}

PropLine(ind, md, nm, mk, ty, tr) == ind \o md \o nm \o mk \o ": " \o ty \o ";" \o tr

PropLines ==
    { PropLine(ind, md, nm, mk, ty, tr) :
        ind \in Indents, md \in PropModifiers, nm \in PropNames, mk \in Markers,
        ty \in DeclaredTypes, tr \in Trailers }

\* lines of an entity file that declare no property and hold no relation annotation
BlankLines == {"", "   "}

BraceLines == {"}", "export class Client {"}

CommentLines == {"// comment", "/** the display name */", "// TODO: drop this later;"}

DecoratorLines ==
    {"@Entity()", "@PrimaryGeneratedColumn()", "@Column({ type: 'varchar', length: 50 })",
     "@JoinColumn({ name: 'client_id' })"}

MethodLines ==
    {"getName(): string {", "abstract total(): number;", "setName(name: string): void;",
     "isActive(now: Date): boolean { return this.until > now; }"}

NonFieldLines == BlankLines \cup BraceLines \cup CommentLines \cup DecoratorLines \cup MethodLines

\* annotations that are not of the shape @K(() => X, ...)
OtherLines == {"@ManyToOne(type => Client)", "@ManyToOne(() => Client.Sub)", "return this.name;"}

\* the lines multi-line texts are assembled from
SmallLines ==
    <<"@ManyToOne(() => Client, (c) => c.orders)", "  cliente: Client;", "id: number;",
      "name: string;", "created_at: Date;", "tags?: string[];", "// comment",
      "clientId: number;", "">>

\* the texts of n lines over SmallLines
RECURSIVE SmallTexts(_)
SmallTexts(n) ==
    IF n = 1 THEN { SmallLines[a] : a \in 1..Len(SmallLines) }
    ELSE { SmallLines[a] \o "\n" \o t : a \in 1..Len(SmallLines), t \in SmallTexts(n - 1) }

Texts ==
    RelLines \cup PropLines \cup NonFieldLines \cup OtherLines
    \cup UNION { SmallTexts(n) : n \in 1..MaxLines }

(***************************************************************************)
(* One run of the entityFiles.forEach callback                             *)
(***************************************************************************)

Init ==
    /\ script \in Scripts
    /\ entityContent \in Texts
    /\ lines = <<>>
    /\ i = 0
    /\ props = <<>>
    /\ dtoContent = <<>>
    /\ j = 0
    /\ pc = "read"

\* fs.readFileSync and entityContent.split('\n')
ReadEntity ==
    /\ pc = "read"
    /\ lines' = split(entityContent)
    /\ pc' = "scan"
    /\ UNCHANGED <<script, entityContent, i, props, dtoContent, j>>

\* const line = lines[i].trim()
Line == trim(lines[i + 1])

\* the iteration with a field dropped when props already holds its name
scanLine_Dedup(line) ==
    LET rel == relationField(line)
        propMatch == PropMatch(line, 1)
        field == IF rel # <<>>
                 THEN (IF script = "part_000" THEN rel ELSE <<basicRelation(rel[1])>>)
                 ELSE IF propMatch # <<>>
                 THEN (IF script = "part_000" THEN <<plainField(line, propMatch)>>
                       ELSE <<basicField(propMatch)>>)
                 ELSE <<>>
    IN  IF field # <<>> /\ \E n \in 1..Len(props) : props[n].name = field[1].name
        THEN <<>> ELSE field

\* what one iteration of the for loop pushes for the trimmed line: <<field>> or <<>>
scanLine(line) ==
    LET rel == relationField(line)
        propMatch == PropMatch(line, 1)
    IN  IF rel # <<>>
        THEN (IF script = "part_000" THEN rel ELSE <<basicRelation(rel[1])>>)
        ELSE IF propMatch # <<>>
        THEN (IF script = "part_000" THEN <<plainField(line, propMatch)>>
              ELSE <<basicField(propMatch)>>)
        ELSE <<>>

\* one iteration of the for loop of parseProps
ScanLine ==
    /\ pc = "scan"
    /\ i < Len(lines)
    /\ props' = props \o scanLine(Line)
    /\ i' = i + 1
    /\ UNCHANGED <<script, entityContent, lines, dtoContent, j, pc>>

\* if (!props.length) { console.warn(...); return; }
SkipEntity ==
    /\ pc = "scan"
    /\ i = Len(lines)
    /\ props = <<>>
    /\ pc' = "skipped"
    /\ UNCHANGED <<script, entityContent, lines, i, props, dtoContent, j>>

\* the loop is over and props is not empty: on to rendering
BeginRender ==
    /\ pc = "scan"
    /\ i = Len(lines)
    /\ props # <<>>
    /\ pc' = "render"
    /\ UNCHANGED <<script, entityContent, lines, i, props, dtoContent, j>>

\* one iteration of props.forEach (part_000) or of props.map (generate-dto.js)
RenderField ==
    /\ pc = "render"
    /\ j < Len(props)
    /\ dtoContent' = Append(dtoContent, IF script = "part_000" THEN renderValidated(props[j + 1])
                                        ELSE renderBasic(props[j + 1]))
    /\ j' = j + 1
    /\ UNCHANGED <<script, entityContent, lines, i, props, pc>>

\* fs.writeFileSync of the create and update DTO
WriteDto ==
    /\ pc = "render"
    /\ j = Len(props)
    /\ pc' = "written"
    /\ UNCHANGED <<script, entityContent, lines, i, props, dtoContent, j>>

Next ==
    \/ ReadEntity
    \/ ScanLine
    \/ SkipEntity
    \/ BeginRender
    \/ RenderField
    \/ WriteDto

Spec == Init /\ [][Next]_vars

(***************************************************************************)
(* Vocabulary of the properties                                            *)
(***************************************************************************)

\* the for loop of the extraction is over
Scanned == pc # "read" /\ i = Len(lines)

ToOne == {"ManyToOne", "OneToOne"}

ToMany == {"OneToMany", "ManyToMany"}

\* the targets with their first character lower-cased, written out
LoweredTarget(X) ==
    CASE X = "Client" -> "client"
      [] X = "orderItem" -> "orderItem"
      [] X = "_Tag9" -> "_Tag9"

\* the relation lines with the parts they were written from
RelShapes ==
    { [line |-> RelLine(ind, K, X, layout, tl), K |-> K, X |-> X] :
        ind \in Indents, K \in Kinds, X \in Targets, layout \in Layouts, tl \in RelTails }

\* the property lines with the parts they were written from
PropShapes ==
    { [line |-> PropLine(ind, md, nm, mk, ty, tr), nm |-> nm, mk |-> mk, ty |-> ty, tr |-> tr] :
        ind \in Indents, md \in PropModifiers, nm \in PropNames, mk \in Markers,
        ty \in DeclaredTypes, tr \in Trailers }

\* the property lines the regex matches: the name is followed by ":" or "?:"
MatchedShapes == { sh \in PropShapes : sh.mk \in {"", "?"} }

PresenceRules == {"IsOptional", "IsNotEmpty"}

TypeRules == {"IsString", "IsNumber", "IsPositive", "IsBoolean", "IsDate", "IsArray"}

IsPresenceRule(r) == r \in PresenceRules

IsTypeRule(r) == r \in TypeRules

\* the rules of a rendered field other than its presence rule
RulesOf(e) == SelectSeq(e.validators, LAMBDA r : ~IsPresenceRule(r))

\* the name a rendered field declares
DtoName(e) == SubSeq(e.decl, 1, FirstOf(e.decl, 1, {":"}) - 1)

DtoNames == [n \in 1..Len(dtoContent) |-> DtoName(dtoContent[n])]

\* the canonical type of the closed set for a type name of part_000
CanonicalName(t) == IF t = "Date" THEN "date" ELSE t

CanonicalTypes == {"string", "number", "boolean", "date", "array", "any"}

(***************************************************************************)
(* C1  relation annotations                                                *)
(***************************************************************************)

C2_OptionalFromMarker ==
    (script = "part_000" /\ Scanned /\ Len(lines) = 1) =>
       \A sh \in MatchedShapes :
          entityContent = sh.line =>
             /\ Len(props) = 1
             /\ props[1].isOptional = (sh.mk = "?")
             /\ pc = "written" =>
                   dtoContent[1].validators[1] =
                      (IF sh.mk = "?" THEN "IsOptional" ELSE "IsNotEmpty")

(***************************************************************************)
(* C3  the relation scenario                                               *)
(***************************************************************************)

C3Input == "@ManyToOne(() => Client, (c) => c.orders)" \o "\n" \o "  cliente: Client;"

C4_TagsIsArray ==
    (script = "part_000" /\ entityContent = "tags?: string[];" /\ pc = "written") =>
       /\ Len(dtoContent) = 1
       /\ DtoName(dtoContent[1]) = "tags"
       /\ CanonicalName(props[1].type) = "array"
       /\ props[1].isOptional
       /\ RulesOf(dtoContent[1]) = <<"IsArray">>
       /\ SelectSeq(dtoContent[1].validators, IsPresenceRule) = <<"IsOptional">>

(***************************************************************************)
(* C5  one entry per matched line, in source order                         *)
(***************************************************************************)

\* the field names the lines of SmallLines declare, line by line, written out
SmallNames ==
    << <<"clientId">>, <<"cliente">>, <<"id">>, <<"name">>, <<"created_at">>, <<"tags">>,
       <<>>, <<"clientId">>, <<>> >>

\* the names the line declares
NamesOfLine(line) ==
    SmallNames[CHOOSE a \in 1..Len(SmallLines) : SmallLines[a] = line]

RECURSIVE NamesOfLines(_)
NamesOfLines(ls) ==
    IF ls = <<>> THEN <<>> ELSE NamesOfLine(Head(ls)) \o NamesOfLines(Tail(ls))

OfSmallLines == \A n \in 1..Len(lines) : \E a \in 1..Len(SmallLines) : SmallLines[a] = lines[n]

\* C5: the extracted fields and the fields of the rendered create DTO are, one
\* for one and in source order, the fields of the matched lines; nothing is
\* dropped, merged, deduplicated or reordered, also when a name repeats.
C5_OneFieldPerLineInOrder ==
    (pc # "read" /\ OfSmallLines) =>
       /\ [n \in 1..Len(props) |-> props[n].name] = NamesOfLines(SubSeq(lines, 1, i))
       /\ DtoNames = [n \in 1..j |-> props[n].name]
       /\ pc = "written" => DtoNames = NamesOfLines(lines)

\* a relation line, a skipped line and a property line of the same name as the
\* relation's field have been rendered as two fields
C5_Witness ==
    /\ pc = "written"
    /\ lines = <<"@ManyToOne(() => Client, (c) => c.orders)", "// comment", "clientId: number;">>
    /\ DtoNames = <<"clientId", "clientId">>

(***************************************************************************)
(* C6  texts without property or relation lines                            *)
(***************************************************************************)

\* C6: a text of method signatures, comments, non-relation decorators, blank
\* lines and braces only gives no field, and the entity is skipped.
C6_NonFieldTextSkipped ==
    (pc # "read" /\ \A n \in 1..Len(lines) : lines[n] \in NonFieldLines) =>
       /\ props = <<>>
       /\ pc \in {"scan", "skipped"}

(***************************************************************************)
(* C7  type canonicalization                                               *)
(***************************************************************************)

\* the ordered list of the claim: the words of a rule and its canonical type
ClaimRules ==
    << <<{"string", "varchar", "text"}, "string">>,
       <<{"number", "int", "decimal", "float", "double", "numeric", "smallint", "bigint"},
         "number">>,
       <<{"boolean", "true", "false"}, "boolean">>,
       <<{"date", "datetime", "timestamp"}, "date">> >>

\* the first rule from n on with a word that t contains whatever the case, and
\* past the word rules the array rule as given, then any
RECURSIVE FirstRule(_, _, _)
FirstRule(t, n, isArrayTyped) ==
    IF n > Len(ClaimRules) THEN (IF isArrayTyped THEN "array" ELSE "any")
    ELSE IF \E w \in ClaimRules[n][1] : includes(toLowerCase(t), w) THEN ClaimRules[n][2]
    ELSE FirstRule(t, n + 1, isArrayTyped)

\* how generate-dto.js writes a canonical type
Written(c) ==
    CASE c = "date" -> "string"
      [] c = "array" -> "any[]"
      [] OTHER -> c

\* the canonical type part_000 gives the only line of the text
GivesCanonical(c) ==
    /\ Len(props) = 1
    /\ ~props[1].isRelation
    /\ CanonicalName(props[1].type) = c
    /\ c \in CanonicalTypes

\* the canonical type, as written, in the only field generate-dto.js renders
WritesCanonical(nm, c) ==
    /\ Len(props) = 1
    /\ pc = "written" => dtoContent[1].decl = nm \o ": " \o Written(c) \o ";"

\* relation fields are numbers, without any test
RelationsAreNumbers ==
    \A n \in 1..Len(props) :
       props[n].isRelation =>
          /\ script = "part_000" => props[n].type = "number"
          /\ (script = "generate-dto" /\ j >= n) =>
                dtoContent[n].decl = props[n].name \o ": number"
                                        \o (IF props[n].isArray THEN "[]" ELSE "") \o ";"

BaseRule(c) ==
    CASE c = "string" -> <<"IsString">>
      [] c = "number" -> <<"IsNumber">>
      [] c = "boolean" -> <<"IsBoolean">>
      [] c = "date" -> <<"IsDate">>
      [] c = "array" -> <<"IsArray">>
      [] c = "any" -> <<>>

C9_IsArrayIffArrayTyped ==
    (script = "part_000" /\ Scanned /\ Len(lines) = 1) =>
       /\ \A sh \in RelShapes :
             entityContent = sh.line => (Len(props) = 1 /\ props[1].isArray = (sh.K \in ToMany))
       /\ \A sh \in MatchedShapes :
             entityContent = sh.line =>
                /\ Len(props) = 1
                /\ props[1].isArray = (EndsWith(sh.ty, "[]") \/ includes(sh.ty, "Array<"))

(***************************************************************************)
(* C10  presence rules                                                     *)
(***************************************************************************)

\* a field of part_000 is required unless it was scanned as optional; no field
\* of generate-dto.js is required
Required(prop) == IF script = "part_000" THEN ~prop.isOptional ELSE FALSE

====
